---------------------------- MODULE Spec2Model ----------------------------
(***************************************************************************)
(* Model of app.py: the UTBot signal computation, the token and account   *)
(* caches, the order helpers, the autonomous trading loop running on its  *)
(* background thread, and the two Flask routes.                            *)
(*                                                                         *)
(* Prices are integers.  Python computes the ATR in floating point; here  *)
(* it is computed exactly, every price-like quantity of one call of       *)
(* compute_utbot_signal being carried multiplied by Scale(bars), so that  *)
(* the divisions by ATR_LEN are exact.                                     *)
(*                                                                         *)
(* Python's None is the string "None".  Time is in seconds since process  *)
(* start; the clock is observed in steps of ClockStep seconds, and no      *)
(* blocking call of the program (a request with its timeout, a sleep of   *)
(* 1 s or of POLL_SEC = 60 s) spans more than one step.                    *)
(***************************************************************************)
EXTENDS Integers, Sequences, FiniteSets, TLC

\* ---------------------------------------------------------------- config
ATR_LEN == 10
KEY_VALUE == 1
TOKEN_TTL == 18 * 60

\* ---------------------------------------------------------------- bounds
\* The clock advances ClockStep seconds at a time, at most MaxTicks times.
ClockStep == 360
MaxTicks == 4
\* The signal detector is fed bar lists of at most MaxBars bars.
MaxBars == 15

None == "None"

\* ------------------------------------------------- UTBot logic (pure)
Abs(x) == IF x < 0 THEN -x ELSE x
Max2(a, b) == IF a >= b THEN a ELSE b
Min2(a, b) == IF a <= b THEN a ELSE b

RECURSIVE Pow(_, _)
Pow(b, e) == IF e = 0 THEN 1 ELSE b * Pow(b, e - 1)

\* bars[i] of the Python list (0-based) is Bar(bars, i).
Bar(bars, i) == bars[i + 1]

\* Every price of one call is held multiplied by Scale(bars) = ATR_LEN^(n-ATR_LEN):
\* the ATR at index i has denominator ATR_LEN^(i-ATR_LEN+1).
Scale(bars) == Pow(ATR_LEN, Len(bars) - ATR_LEN)

\* trs[i] after line 134 (the first true range is prepended, so trs[0] = trs[1]).
TrueRange(bars, i) ==
    LET j == IF i = 0 THEN 1 ELSE i
        h == Bar(bars, j).high
        l == Bar(bars, j).low
        c == Bar(bars, j - 1).close
    IN  Max2(h - l, Max2(Abs(h - c), Abs(l - c)))

RECURSIVE SumTrs(_, _, _)
SumTrs(bars, lo, hi) ==
    IF lo > hi THEN 0 ELSE TrueRange(bars, lo) + SumTrs(bars, lo + 1, hi)

\* atr_list[0..n], scaled, as a sequence whose element i+1 is atr_list[i];
\* the entries below ATR_LEN are None (line 138).
RECURSIVE AtrList(_, _)
AtrList(bars, n) ==
    IF n < ATR_LEN THEN [k \in 1..(n + 1) |-> None]
    ELSE IF n = ATR_LEN
         THEN Append(AtrList(bars, n - 1),
                     (SumTrs(bars, 1, ATR_LEN) * Scale(bars)) \div ATR_LEN)
         ELSE LET prev == AtrList(bars, n - 1)
              IN  Append(prev,
                         (TrueRange(bars, n) * Scale(bars)
                            + (ATR_LEN - 1) * prev[n]) \div ATR_LEN)

\* StopList with the entries up to ATR_LEN above every price instead of 0.
RECURSIVE StopList_seededAbove(_, _, _)
StopList_seededAbove(bars, atr, n) ==
    IF n <= ATR_LEN THEN [k \in 1..(n + 1) |-> 2000000000]
    ELSE LET prev      == StopList_seededAbove(bars, atr, n - 1)
             src       == Bar(bars, n).close * Scale(bars)
             src_prev  == Bar(bars, n - 1).close * Scale(bars)
             n_loss    == KEY_VALUE * atr[n + 1]
             prev_stop == prev[n]
             s == IF src > prev_stop /\ src_prev > prev_stop
                    THEN Max2(prev_stop, src - n_loss)
                  ELSE IF src < prev_stop /\ src_prev < prev_stop
                    THEN Min2(prev_stop, src + n_loss)
                  ELSE IF src > prev_stop
                    THEN src - n_loss
                  ELSE src + n_loss
         IN  Append(prev, s)

\* StopList with the entries up to ATR_LEN at the close of their bar instead of 0.
RECURSIVE StopList_seededAtClose(_, _, _)
StopList_seededAtClose(bars, atr, n) ==
    IF n <= ATR_LEN THEN [k \in 1..(n + 1) |-> Bar(bars, k - 1).close * Scale(bars)]
    ELSE LET prev      == StopList_seededAtClose(bars, atr, n - 1)
             src       == Bar(bars, n).close * Scale(bars)
             src_prev  == Bar(bars, n - 1).close * Scale(bars)
             n_loss    == KEY_VALUE * atr[n + 1]
             prev_stop == prev[n]
             s == IF src > prev_stop /\ src_prev > prev_stop
                    THEN Max2(prev_stop, src - n_loss)
                  ELSE IF src < prev_stop /\ src_prev < prev_stop
                    THEN Min2(prev_stop, src + n_loss)
                  ELSE IF src > prev_stop
                    THEN src - n_loss
                  ELSE src + n_loss
         IN  Append(prev, s)

\* StopList following the price without keeping the better of the two stops.
RECURSIVE StopList_noRatchet(_, _, _)
StopList_noRatchet(bars, atr, n) ==
    IF n <= ATR_LEN THEN [k \in 1..(n + 1) |-> 0]
    ELSE LET prev      == StopList_noRatchet(bars, atr, n - 1)
             src       == Bar(bars, n).close * Scale(bars)
             n_loss    == KEY_VALUE * atr[n + 1]
             prev_stop == prev[n]
             s == IF src > prev_stop THEN src - n_loss ELSE src + n_loss
         IN  Append(prev, s)

\* stop[0..n], scaled, as a sequence whose element i+1 is stop[i].
RECURSIVE StopList(_, _, _)
StopList(bars, atr, n) ==
    IF n <= ATR_LEN THEN [k \in 1..(n + 1) |-> 0]
    ELSE LET prev      == StopList(bars, atr, n - 1)
             src       == Bar(bars, n).close * Scale(bars)
             src_prev  == Bar(bars, n - 1).close * Scale(bars)
             n_loss    == KEY_VALUE * atr[n + 1]
             prev_stop == prev[n]
             s == IF src > prev_stop /\ src_prev > prev_stop
                    THEN Max2(prev_stop, src - n_loss)
                  ELSE IF src < prev_stop /\ src_prev < prev_stop
                    THEN Min2(prev_stop, src + n_loss)
                  ELSE IF src > prev_stop
                    THEN src - n_loss
                  ELSE src + n_loss
         IN  Append(prev, s)

Stops(bars) == StopList(bars, AtrList(bars, Len(bars) - 1), Len(bars) - 1)

\* compute_utbot_signal taking a list too short for a stop as price below the stop.
compute_utbot_signal_shortSell(bars) ==
    IF Len(bars) < ATR_LEN + 2 THEN "sell"
    ELSE LET stop == Stops(bars)
             i    == Len(bars) - 1
             i_1  == Len(bars) - 2
             above_now  == Bar(bars, i).close * Scale(bars) > stop[i + 1]
             above_prev == Bar(bars, i_1).close * Scale(bars) > stop[i_1 + 1]
         IN  IF above_now /\ ~above_prev THEN "buy"
             ELSE IF ~above_now /\ above_prev THEN "sell"
             ELSE None

\* compute_utbot_signal reporting the side of the stop, not the crossing.
compute_utbot_signal_levelTriggered(bars) ==
    IF Len(bars) < ATR_LEN + 2 THEN None
    ELSE LET stop == Stops(bars)
             i    == Len(bars) - 1
             i_1  == Len(bars) - 2
             above_now  == Bar(bars, i).close * Scale(bars) > stop[i + 1]
             above_prev == Bar(bars, i_1).close * Scale(bars) > stop[i_1 + 1]
         IN  IF above_now THEN "buy"
             ELSE IF above_prev THEN "sell"
             ELSE None

compute_utbot_signal(bars) ==
    IF Len(bars) < ATR_LEN + 2 THEN None
    ELSE LET stop == Stops(bars)
             i    == Len(bars) - 1
             i_1  == Len(bars) - 2
             above_now  == Bar(bars, i).close * Scale(bars) > stop[i + 1]
             above_prev == Bar(bars, i_1).close * Scale(bars) > stop[i_1 + 1]
             buy_signal  == above_now /\ ~above_prev
             sell_signal == ~above_now /\ above_prev
         IN  IF buy_signal THEN "buy"
             ELSE IF sell_signal THEN "sell"
             ELSE None


\* ------------------------------------------------------------ the state
VARIABLES
    now,          \* time.time(), seconds since process start
    _token,       \* module global, line 31
    _token_ts,    \* module global, line 32
    _acct_id,     \* module global, line 60
    last_signal,  \* local of trading_loop, line 206
    bars,         \* local of trading_loop, line 210
    signal,       \* local of trading_loop, line 214
    pc,           \* where each thread is
    tnow,         \* get_token's local `now` of each thread, line 37
    ret,          \* what get_token returned to each thread
    op,           \* the brokerage request the loop thread is making
    cont,         \* liquidate or place_order, while get_account is fetching the list
    side,         \* the action passed to place_order
    inflight,     \* brokerage requests sent and not yet answered
    log,          \* what the current poll iteration did, in order
    last0,        \* last_signal when the current poll iteration began
    issuedAt,     \* clock reading stored with the latest token obtained, -1 if none
    mfaPending,   \* the latest authentication response carried a p-ticket
    hst           \* what each Flask request thread is serving

vars == <<now, _token, _token_ts, _acct_id, last_signal, bars, signal, pc, tnow, ret,
          op, cont, side, inflight, log, last0, issuedAt, mfaPending, hst>>

\* Threads that call into the brokerage helpers: the utbot-loop thread, and two
\* free callers of get_token used by the specification Callers.
Loop == "loop"
CallerThreads == {"c1", "c2"}
Threads == {Loop} \cup CallerThreads
\* Flask request threads, and what one that serves nothing holds.
Handlers == {"h1", "h2"}
Idle == [route |-> "idle", body |-> "none"]

Token == "tok"
\* Account-list responses: r.json() of /account/list, as the list of ids.
AccountLists == {<<>>, <<"a7">>, <<"a9", "a8">>}

\* ---------------------------------------------- chart responses (bars)
FlatBar(c) == [high |-> c, low |-> c, close |-> c]
\* fewer than ATR_LEN + 2 bars
ShortBars == [k \in 1..3 |-> FlatBar(100)]
\* a bar without a close: bars[-1]['close'] raises KeyError at line 215
BadBars == <<[high |-> 100, low |-> 100]>>
\* twelve equal bars: ATR 0, the last close is not above its stop
SellBars == [k \in 1..12 |-> FlatBar(100)]
\* twelve equal bars and a jump
BuyBars == [k \in 1..13 |-> IF k = 13 THEN FlatBar(110) ELSE FlatBar(100)]
\* a steady rise with a range
HoldBars == [k \in 1..12 |-> [high |-> 100 + k, low |-> 98 + k, close |-> 99 + k]]
ChartBars == {<<>>, ShortBars, BadBars, SellBars, BuyBars, HoldBars}

\* A bar list on which lines 214-215 raise KeyError: compute_utbot_signal reads
\* every close and the high and low of every bar but the first; line 215 reads
\* the last close.
BarsRaise(bs) ==
    \/ /\ Len(bs) >= ATR_LEN + 2
       /\ \/ \E k \in 1..Len(bs) : "close" \notin DOMAIN bs[k]
          \/ \E k \in 2..Len(bs) : ~({"high", "low"} \subseteq DOMAIN bs[k])
    \/ /\ Len(bs) > 0
       /\ "close" \notin DOMAIN bs[Len(bs)]

SignalOf == [b \in {c \in ChartBars : ~BarsRaise(c)} |-> compute_utbot_signal(b)]

\* ------------------------------------------------------------- helpers
\* A request on the wire: who sent it, which endpoint, the bearer of its
\* Authorization header and, for liquidate and place order, the accountId.
Req(t, k) ==
    [t |-> t, k |-> k, bearer |-> ret[t],
     acct |-> IF k \in {"liq", "buy", "sell"} THEN _acct_id ELSE None]
Events(l) == {l[i] : i \in 1..Len(l)}
\* The liquidate and open-order dispatches of an iteration, in order.
IsTrade(e) == e \in {"liq", "buy", "sell"}
Trades(l) == SelectSeq(l, IsTrade)

Init ==
    /\ now = 0
    /\ _token = None
    /\ _token_ts = 0
    /\ _acct_id = None
    /\ last_signal = None
    /\ signal = None
    /\ pc = [t \in Threads |-> IF t = Loop THEN "top" ELSE "off"]
    /\ tnow = [t \in Threads |-> 0]
    /\ ret = [t \in Threads |-> None]
    /\ op = None
    /\ cont = None
    /\ side = None
    /\ inflight = {}
    /\ log = <<>>
    /\ last0 = None
    /\ issuedAt = -1
    /\ mfaPending = FALSE
    /\ hst = [h \in Handlers |-> Idle]
    /\ bars = <<>>

\* Time passes while a thread is blocked in a request or a sleep: when the call
\* returns the clock shows the same step or the next one.
Elapse ==
    \/ now' = now
    \/ now < MaxTicks * ClockStep /\ now' = now + ClockStep

\* ------------------------------------------------------------ get_token
\* Where a thread continues after get_token returns, and where an exception
\* raised inside it lands.
AfterToken(t) == IF t = Loop THEN "send" ELSE "idle"
OnRaise(t) == IF t = Loop THEN "except" ELSE "idle"

\* get_token with the freshness test of line 38 turned round.
GetTokenEnter_staleTest(t) ==
    /\ pc[t] = "get_token"
    /\ tnow' = [tnow EXCEPT ![t] = now]
    /\ IF _token # None /\ now - _token_ts > TOKEN_TTL
         THEN /\ ret' = [ret EXCEPT ![t] = _token]
              /\ pc' = [pc EXCEPT ![t] = AfterToken(t)]
              /\ UNCHANGED <<inflight, log>>
         ELSE /\ inflight' = inflight \cup {[t |-> t, k |-> "auth", bearer |-> None, acct |-> None]}
              /\ log' = IF t = Loop THEN Append(log, "auth") ELSE log
              /\ pc' = [pc EXCEPT ![t] = "auth_wait"]
              /\ UNCHANGED ret
    /\ UNCHANGED <<now, _token, _token_ts, _acct_id, last_signal, signal, op, cont,
                   side, last0, issuedAt, mfaPending, hst>>
    /\ UNCHANGED bars

\* Lines 37-45: read the clock, return the cached token if it is fresh, else
\* send the access-token request.
GetTokenEnter(t) ==
    /\ pc[t] = "get_token"
    /\ tnow' = [tnow EXCEPT ![t] = now]
    /\ IF _token # None /\ now - _token_ts < TOKEN_TTL
         THEN /\ ret' = [ret EXCEPT ![t] = _token]
              /\ pc' = [pc EXCEPT ![t] = AfterToken(t)]
              /\ UNCHANGED <<inflight, log>>
         ELSE /\ inflight' = inflight \cup {[t |-> t, k |-> "auth", bearer |-> None, acct |-> None]}
              /\ log' = IF t = Loop THEN Append(log, "auth") ELSE log
              /\ pc' = [pc EXCEPT ![t] = "auth_wait"]
              /\ UNCHANGED ret
    /\ UNCHANGED <<now, _token, _token_ts, _acct_id, last_signal, signal, op, cont,
                   side, last0, issuedAt, mfaPending, hst>>
    /\ UNCHANGED bars

\* Lines 46-54: the answer to the access-token request.
\*   "raise"    timeout, transport error, HTTP error status, no accessToken
\*   "p-ticket" the brokerage asks for a verification code: return None
\*   "token"    cache the token with the clock reading of line 37
GetTokenResp(t, outcome) ==
    /\ pc[t] = "auth_wait"
    /\ inflight' = inflight \ {r \in inflight : r.t = t /\ r.k = "auth"}
    /\ CASE outcome = "raise" ->
              /\ pc' = [pc EXCEPT ![t] = OnRaise(t)]
              /\ log' = IF t = Loop THEN Append(log, "raise") ELSE log
              /\ UNCHANGED <<_token, _token_ts, ret, issuedAt, mfaPending>>
         [] outcome = "p-ticket" ->
              /\ ret' = [ret EXCEPT ![t] = None]
              /\ mfaPending' = TRUE
              /\ pc' = [pc EXCEPT ![t] = AfterToken(t)]
              /\ UNCHANGED <<_token, _token_ts, issuedAt, log>>
         [] outcome = "token" ->
              /\ _token' = Token
              /\ _token_ts' = tnow[t]
              /\ ret' = [ret EXCEPT ![t] = Token]
              /\ issuedAt' = tnow[t]
              /\ mfaPending' = FALSE
              /\ pc' = [pc EXCEPT ![t] = AfterToken(t)]
              /\ UNCHANGED log
    /\ Elapse
    /\ UNCHANGED <<_acct_id, last_signal, signal, tnow, op, cont, side, last0, hst>>
    /\ UNCHANGED bars

\* ------------------------------------------- get_account and the helpers
\* Entering liquidate() or place_order(): get_account() first (lines 64-66).
\* With _acct_id cached the helper goes on to hdrs() for its own request;
\* otherwise hdrs() is called for the account-list request.
EnterHelper(kind) ==
    /\ IF _acct_id # None
         THEN op' = kind /\ cont' = None
         ELSE op' = "acct" /\ cont' = kind
    /\ pc' = [pc EXCEPT ![Loop] = "get_token"]

\* What the request of the loop thread is called in the log and on the wire.
Wire == IF op = "order" THEN side ELSE op

\* The request whose headers hdrs() has just built is sent: requests.get of
\* lines 66 and 81, requests.post of lines 183 and 198.
Send ==
    /\ pc[Loop] = "send"
    /\ inflight' = inflight \cup {Req(Loop, Wire)}
    /\ log' = Append(log, Wire)
    /\ pc' = [pc EXCEPT ![Loop] = "wait"]
    /\ UNCHANGED <<now, _token, _token_ts, _acct_id, last_signal, signal, tnow, ret,
                   op, cont, side, last0, issuedAt, mfaPending, hst>>
    /\ UNCHANGED bars

\* The request of the loop thread that is on the wire.
Sent == {r \in inflight : r.t = Loop /\ r.k = Wire}
\* The brokerage answers 200 only to a request that carries a token; a request
\* sent with "Bearer None" gets an error status or no answer.
Authorized == \A r \in Sent : r.bearer # None

\* An exception that is logged where it occurs, the request being tried again.
Raise_retry ==
    /\ pc' = [pc EXCEPT ![Loop] = "get_token"]
    /\ log' = Append(log, "raise")

\* An exception propagates to line 234.
Raise ==
    /\ pc' = [pc EXCEPT ![Loop] = "except"]
    /\ log' = Append(log, "raise")

\* ---------------------------------------------------------- trading_loop
\* trading_loop opening the new side without closing the old one.
OnSignal_noLiquidate(sig) ==
    IF sig = "buy" /\ last_signal # "buy"
      THEN side' = "buy" /\ EnterHelper("order")
    ELSE IF sig = "sell" /\ last_signal # "sell"
      THEN side' = "sell" /\ EnterHelper("order")
    ELSE /\ pc' = [pc EXCEPT ![Loop] = "sleep"]
         /\ UNCHANGED <<op, cont, side>>

\* trading_loop without the last_signal guards of lines 218 and 226.
OnSignal_noGuard(sig) ==
    IF sig = "buy"
      THEN /\ side' = "buy"
           /\ IF last_signal = "sell" THEN EnterHelper("liq") ELSE EnterHelper("order")
    ELSE IF sig = "sell"
      THEN /\ side' = "sell"
           /\ IF last_signal = "buy" THEN EnterHelper("liq") ELSE EnterHelper("order")
    ELSE /\ pc' = [pc EXCEPT ![Loop] = "sleep"]
         /\ UNCHANGED <<op, cont, side>>

\* Lines 218-232: what the loop does with a computed signal.
OnSignal(sig) ==
    IF sig = "buy" /\ last_signal # "buy"
      THEN /\ side' = "buy"
           /\ IF last_signal = "sell" THEN EnterHelper("liq") ELSE EnterHelper("order")
    ELSE IF sig = "sell" /\ last_signal # "sell"
      THEN /\ side' = "sell"
           /\ IF last_signal = "buy" THEN EnterHelper("liq") ELSE EnterHelper("order")
    ELSE /\ pc' = [pc EXCEPT ![Loop] = "sleep"]
         /\ UNCHANGED <<op, cont, side>>

\* Line 208-210: a poll iteration begins with fetch_bars(), which calls hdrs().
\* bars and signal are dead here (lines 210 and 214 assign them before any read).
LoopTop ==
    /\ pc[Loop] = "top"
    /\ log' = <<>>
    /\ last0' = last_signal
    /\ signal' = None
    /\ op' = "chart"
    /\ cont' = None
    /\ side' = None
    /\ pc' = [pc EXCEPT ![Loop] = "get_token"]
    /\ UNCHANGED <<now, _token, _token_ts, _acct_id, last_signal, tnow, ret,
                   inflight, issuedAt, mfaPending, hst>>
    /\ bars' = <<>>

\* Lines 93-99 and 211-232: the answer to /md/getChart and what follows it up
\* to the next brokerage call.
ChartResp(outcome, b) ==
    /\ pc[Loop] = "wait" /\ op = "chart"
    /\ inflight' = inflight \ Sent
    /\ CASE outcome = "raise" ->
              /\ Raise
              /\ UNCHANGED <<bars, signal, op, cont, side>>
         [] outcome = "ok" ->
              /\ Authorized
              /\ bars' = b
              /\ IF b = <<>>
                   THEN /\ pc' = [pc EXCEPT ![Loop] = "sleep"]
                        /\ UNCHANGED <<signal, op, cont, side, log>>
                 ELSE IF BarsRaise(b)
                   THEN /\ Raise
                        /\ signal' = IF Len(b) < ATR_LEN + 2 THEN None ELSE signal
                        /\ UNCHANGED <<op, cont, side>>
                 ELSE /\ signal' = SignalOf[b]
                      /\ OnSignal(SignalOf[b])
                      /\ UNCHANGED log
    /\ Elapse
    /\ UNCHANGED <<_token, _token_ts, _acct_id, last_signal, tnow, ret,
                   last0, issuedAt, mfaPending, hst>>

\* get_account taking the last account of the list.
AcctResp_lastEntry(outcome, accounts) ==
    /\ pc[Loop] = "wait" /\ op = "acct"
    /\ inflight' = inflight \ Sent
    /\ CASE outcome = "raise" ->
              /\ Raise
              /\ UNCHANGED <<_acct_id, op, cont>>
         [] outcome = "ok" ->
              /\ Authorized
              /\ IF accounts = <<>>
                   THEN /\ Raise
                        /\ UNCHANGED <<_acct_id, op, cont>>
                   ELSE /\ _acct_id' = accounts[Len(accounts)]
                        /\ op' = cont
                        /\ cont' = None
                        /\ pc' = [pc EXCEPT ![Loop] = "get_token"]
                        /\ UNCHANGED log
    /\ Elapse
    /\ UNCHANGED <<_token, _token_ts, last_signal, signal, tnow, ret, side,
                   last0, issuedAt, mfaPending, hst>>
    /\ UNCHANGED bars

\* Lines 67-73: the answer to /account/list.
AcctResp(outcome, accounts) ==
    /\ pc[Loop] = "wait" /\ op = "acct"
    /\ inflight' = inflight \ Sent
    /\ CASE outcome = "raise" ->
              /\ Raise
              /\ UNCHANGED <<_acct_id, op, cont>>
         [] outcome = "ok" ->
              /\ Authorized
              /\ IF accounts = <<>>
                   THEN /\ Raise
                        /\ UNCHANGED <<_acct_id, op, cont>>
                   ELSE /\ _acct_id' = accounts[1]
                        /\ op' = cont
                        /\ cont' = None
                        /\ pc' = [pc EXCEPT ![Loop] = "get_token"]
                        /\ UNCHANGED log
    /\ Elapse
    /\ UNCHANGED <<_token, _token_ts, last_signal, signal, tnow, ret, side,
                   last0, issuedAt, mfaPending, hst>>
    /\ UNCHANGED bars

\* liquidate followed at once by place_order, without time.sleep(1).
LiqResp_noPause(outcome) ==
    /\ pc[Loop] = "wait" /\ op = "liq"
    /\ inflight' = inflight \ Sent
    /\ CASE outcome = "raise" -> Raise
         [] outcome = "200" ->
              /\ Authorized
              /\ log' = Append(log, "liq_200")
              /\ EnterHelper("order")
         [] outcome = "error" ->
              /\ log' = Append(log, "liq_err")
              /\ EnterHelper("order")
    /\ Elapse
    /\ outcome = "raise" => UNCHANGED <<op, cont>>
    /\ UNCHANGED <<_token, _token_ts, _acct_id, last_signal, signal, tnow, ret,
                   side, last0, issuedAt, mfaPending, hst>>
    /\ UNCHANGED bars

\* A loop that gives up the reversal when liquidate is answered with an error status.
LiqResp_stopsOnError(outcome) ==
    /\ pc[Loop] = "wait" /\ op = "liq"
    /\ inflight' = inflight \ Sent
    /\ CASE outcome = "raise" -> Raise
         [] outcome = "200" ->
              /\ Authorized
              /\ log' = Append(log, "liq_200")
              /\ pc' = [pc EXCEPT ![Loop] = "pause"]
         [] outcome = "error" ->
              /\ log' = Append(log, "liq_err")
              /\ pc' = [pc EXCEPT ![Loop] = "sleep"]
    /\ Elapse
    /\ UNCHANGED <<_token, _token_ts, _acct_id, last_signal, signal, tnow, ret,
                   op, cont, side, last0, issuedAt, mfaPending, hst>>
    /\ UNCHANGED bars

\* Lines 198-201 and 222/230: the answer to /order/liquidateposition.  The status
\* is logged and not looked at; liquidate() returns and time.sleep(1) begins.
LiqResp(outcome) ==
    /\ pc[Loop] = "wait" /\ op = "liq"
    /\ inflight' = inflight \ Sent
    /\ CASE outcome = "raise" -> Raise
         [] outcome = "200" ->
              /\ Authorized
              /\ log' = Append(log, "liq_200")
              /\ pc' = [pc EXCEPT ![Loop] = "pause"]
         [] outcome = "error" ->
              /\ log' = Append(log, "liq_err")
              /\ pc' = [pc EXCEPT ![Loop] = "pause"]
    /\ Elapse
    /\ UNCHANGED <<_token, _token_ts, _acct_id, last_signal, signal, tnow, ret,
                   op, cont, side, last0, issuedAt, mfaPending, hst>>
    /\ UNCHANGED bars

\* Lines 222-223 and 230-231: time.sleep(1) returns and place_order is called.
Pause ==
    /\ pc[Loop] = "pause"
    /\ log' = Append(log, "pause")
    /\ EnterHelper("order")
    /\ Elapse
    /\ UNCHANGED <<_token, _token_ts, _acct_id, last_signal, signal, tnow, ret,
                   side, inflight, last0, issuedAt, mfaPending, hst>>
    /\ UNCHANGED bars

\* trading_loop falling back to no position when place_order returns False.
OrderReturns_flatOnFailure(ok) ==
    /\ last_signal' = IF ok THEN side ELSE None
    /\ pc' = [pc EXCEPT ![Loop] = "sleep"]

\* What trading_loop does when place_order returns ok (lines 223-224, 231-232):
\* the return value is dropped.
OrderReturns(ok) ==
    /\ last_signal' = side
    /\ pc' = [pc EXCEPT ![Loop] = "sleep"]

\* Lines 192-193: the answer to /order/placeorder.
OrderResp(outcome) ==
    /\ pc[Loop] = "wait" /\ op = "order"
    /\ inflight' = inflight \ Sent
    /\ CASE outcome = "raise" ->
              /\ Raise
              /\ UNCHANGED last_signal
         [] outcome = "200" ->
              /\ Authorized
              /\ log' = Append(log, "ord_200")
              /\ OrderReturns(TRUE)
         [] outcome = "error" ->
              /\ log' = Append(log, "ord_err")
              /\ OrderReturns(FALSE)
    /\ Elapse
    /\ UNCHANGED <<_token, _token_ts, _acct_id, signal, tnow, ret,
                   op, cont, side, last0, issuedAt, mfaPending, hst>>
    /\ UNCHANGED bars

\* An except clause that logs and raises again: the thread ends.
Except_reraise ==
    /\ pc[Loop] = "except"
    /\ pc' = [pc EXCEPT ![Loop] = "dead"]
    /\ UNCHANGED <<now, _token, _token_ts, _acct_id, last_signal, signal, tnow, ret,
                   op, cont, side, inflight, log, last0, issuedAt, mfaPending, hst>>
    /\ UNCHANGED bars

\* Lines 234-235: the exception is logged.
Except ==
    /\ pc[Loop] = "except"
    /\ pc' = [pc EXCEPT ![Loop] = "sleep"]
    /\ UNCHANGED <<now, _token, _token_ts, _acct_id, last_signal, signal, tnow, ret,
                   op, cont, side, inflight, log, last0, issuedAt, mfaPending, hst>>
    /\ UNCHANGED bars

\* Line 237: time.sleep(POLL_SEC) returns.
Sleep ==
    /\ pc[Loop] = "sleep"
    /\ pc' = [pc EXCEPT ![Loop] = "top"]
    /\ Elapse
    /\ UNCHANGED <<_token, _token_ts, _acct_id, last_signal, signal, tnow, ret,
                   op, cont, side, inflight, log, last0, issuedAt, mfaPending, hst>>
    /\ UNCHANGED bars

\* ---------------------------------------------------------- Flask routes
Routes == {"/", "/health"}
\* What a client may put in the request it sends.
Bodies == {"none", "close"}

\* Flask hands a request for a registered route to a request thread.
Accept(h, route, body) ==
    /\ hst[h] = Idle
    /\ hst' = [hst EXCEPT ![h] = [route |-> route, body |-> body]]
    /\ UNCHANGED <<now, _token, _token_ts, _acct_id, last_signal, signal, pc, tnow,
                   ret, op, cont, side, inflight, log, last0, issuedAt, mfaPending>>
    /\ UNCHANGED bars

\* Lines 245-247: reports the symbol and whether the loop thread is alive.
health(h) ==
    /\ hst[h].route = "/health"
    /\ hst' = [hst EXCEPT ![h] = Idle]
    /\ UNCHANGED <<now, _token, _token_ts, _acct_id, last_signal, signal, pc, tnow,
                   ret, op, cont, side, inflight, log, last0, issuedAt, mfaPending>>
    /\ UNCHANGED bars

\* A route that places the order its request asks for, on the request thread.
index_places_order(h) ==
    /\ hst[h].route = "/"
    /\ hst' = [hst EXCEPT ![h] = Idle]
    /\ inflight' = inflight \cup
          {[t |-> h, k |-> IF hst[h].body = "close" THEN "sell" ELSE "buy",
            bearer |-> _token, acct |-> _acct_id]}
    /\ UNCHANGED <<now, _token, _token_ts, _acct_id, last_signal, signal, pc, tnow,
                   ret, op, cont, side, log, last0, issuedAt, mfaPending>>
    /\ UNCHANGED bars

\* Lines 249-251: reports the service name and the symbol.
index(h) ==
    /\ hst[h].route = "/"
    /\ hst' = [hst EXCEPT ![h] = Idle]
    /\ UNCHANGED <<now, _token, _token_ts, _acct_id, last_signal, signal, pc, tnow,
                   ret, op, cont, side, inflight, log, last0, issuedAt, mfaPending>>
    /\ UNCHANGED bars

\* -------------------------------------------------------- specification
AuthOutcomes == {"raise", "p-ticket", "token"}

LoopStep ==
    \/ LoopTop
    \/ GetTokenEnter(Loop)
    \/ \E o \in AuthOutcomes : GetTokenResp(Loop, o)
    \/ Send
    \/ \E o \in {"raise", "ok"} : \E b \in ChartBars : ChartResp(o, b)
    \/ \E o \in {"raise", "ok"} : \E a \in AccountLists : AcctResp(o, a)
    \/ \E o \in {"raise", "200", "error"} : LiqResp(o)
    \/ Pause
    \/ \E o \in {"raise", "200", "error"} : OrderResp(o)
    \/ Except
    \/ Sleep

HandlerStep ==
    \E h \in Handlers :
        \/ \E r \in Routes : \E b \in Bodies : Accept(h, r, b)
        \/ health(h)
        \/ index(h)

Next == LoopStep \/ HandlerStep

Spec == Init /\ [][Next]_vars


\* The loop thread is scheduled, and each of its blocking calls returns: every
\* request carries a timeout (lines 45, 66, 91, 191, 200) and every sleep is finite.
LiveSpec == Spec /\ WF_vars(LoopStep)

\* ------------------------------------- get_token under concurrent callers
\* get_token called from two threads at once: each caller calls it again and
\* again, nothing else runs.
CallersInit ==
    /\ now = 0
    /\ _token = None
    /\ _token_ts = 0
    /\ _acct_id = None
    /\ last_signal = None
    /\ signal = None
    /\ pc = [t \in Threads |-> IF t = Loop THEN "off" ELSE "idle"]
    /\ tnow = [t \in Threads |-> 0]
    /\ ret = [t \in Threads |-> None]
    /\ op = None
    /\ cont = None
    /\ side = None
    /\ inflight = {}
    /\ log = <<>>
    /\ last0 = None
    /\ issuedAt = -1
    /\ mfaPending = FALSE
    /\ hst = [h \in Handlers |-> Idle]
    /\ bars = <<>>

CallerCall(c) ==
    /\ pc[c] = "idle"
    /\ pc' = [pc EXCEPT ![c] = "get_token"]
    /\ Elapse
    /\ UNCHANGED <<_token, _token_ts, _acct_id, last_signal, signal, tnow, ret,
                   op, cont, side, inflight, log, last0, issuedAt, mfaPending, hst>>
    /\ UNCHANGED bars

CallersNext ==
    \E c \in CallerThreads :
          \/ CallerCall(c)
          \/ GetTokenEnter(c)
          \/ \E o \in AuthOutcomes : GetTokenResp(c, o)

Callers == CallersInit /\ [][CallersNext]_vars


\* ------------------------------------------- the signal detector alone
\* compute_utbot_signal applied poll after poll to a bar list that grows by one
\* bar.  Prices are in half points.  log holds the signals returned so far.
SeedLen == ATR_LEN + 1
\* SeedLen bars whose close starts at c0 and moves by step, each with its high
\* and low r away from its close.
LinearBars(c0, step, r) ==
    [k \in 1..SeedLen |->
        [high |-> c0 + step * (k - 1) + r, low |-> c0 + step * (k - 1) - r,
         close |-> c0 + step * (k - 1)]]
SeedBars == {LinearBars(200, step, r) : step \in {-2, 0, 2}, r \in {0, 1}}
\* How far the close of a new bar may be from the close before it.
Deltas == {-6, -2, 0, 2, 6}

\* The bar that follows the list bs, its close d above the last close.
BarAfter(bs, d) ==
    LET last == bs[Len(bs)]
        r == last.high - last.close
    IN  [high |-> last.close + d + r, low |-> last.close + d - r,
         close |-> last.close + d]

\* Whether the list in bars has been given to compute_utbot_signal.
Evaluated == Len(log) = Len(bars) - SeedLen + 1

DetectorInit ==
    /\ now = 0
    /\ _token = None
    /\ _token_ts = 0
    /\ _acct_id = None
    /\ last_signal = None
    /\ signal = None
    /\ pc = [t \in Threads |-> "off"]
    /\ tnow = [t \in Threads |-> 0]
    /\ ret = [t \in Threads |-> None]
    /\ op = None
    /\ cont = None
    /\ side = None
    /\ inflight = {}
    /\ log = <<>>
    /\ last0 = None
    /\ issuedAt = -1
    /\ mfaPending = FALSE
    /\ hst = [h \in Handlers |-> Idle]
    /\ bars \in SeedBars

\* Line 214: signal = compute_utbot_signal(bars).
Detect ==
    /\ ~Evaluated
    /\ signal' = compute_utbot_signal(bars)
    /\ log' = Append(log, compute_utbot_signal(bars))
    /\ UNCHANGED <<now, _token, _token_ts, _acct_id, last_signal, bars, pc, tnow, ret,
                   op, cont, side, inflight, last0, issuedAt, mfaPending, hst>>

\* The next poll finds one more bar.
NewBar(d) ==
    /\ Evaluated
    /\ Len(bars) < MaxBars
    /\ bars' = Append(bars, BarAfter(bars, d))
    /\ UNCHANGED <<now, _token, _token_ts, _acct_id, last_signal, signal, pc, tnow, ret,
                   op, cont, side, inflight, log, last0, issuedAt, mfaPending, hst>>

DetectorNext == Detect \/ \E d \in Deltas : NewBar(d)

Detector == DetectorInit /\ [][DetectorNext]_vars

\* ================================================================ claims
AuthReqs(S) == {r \in S : r.k = "auth"}
TradeReqs(S) == {r \in S : r.k \in {"liq", "buy", "sell"}}
Raised == "raise" \in Events(log)
IterationDone == pc[Loop] = "sleep"

\* The order of the current iteration was sent and did not succeed.
OrderFailed ==
    \/ "ord_err" \in Events(log)
    \/ Raised /\ Events(log) \cap {"buy", "sell"} # {}

\* C1: in a poll iteration in which place_order was invoked and the order did
\* not succeed (a status other than 200, or an exception after the order was
\* sent), last_signal at the end of the iteration is what it was at its start.
C1_FailedOrderLeavesState ==
    (IterationDone /\ OrderFailed) => last_signal = last0

\* C2: at the end of a poll iteration in which nothing raised: Flat with a buy
\* signal ends Long after exactly one buy order and no liquidate; Long with a
\* sell signal ends Short after exactly one liquidate followed by exactly one
\* sell order; Short with a buy signal ends Long after one liquidate followed
\* by one buy order.
C2_DispatchCounts ==
    (IterationDone /\ ~Raised) =>
        /\ (last0 = None /\ signal = "buy") =>
              (last_signal = "buy" /\ Trades(log) = <<"buy">>)
        /\ (last0 = "buy" /\ signal = "sell") =>
              (last_signal = "sell" /\ Trades(log) = <<"liq", "sell">>)
        /\ (last0 = "sell" /\ signal = "buy") =>
              (last_signal = "buy" /\ Trades(log) = <<"liq", "buy">>)
C2_Witness ==
    /\ IterationDone
    /\ last0 = "buy" /\ signal = "sell" /\ last_signal = "sell"
    /\ Trades(log) = <<"liq", "sell">>

\* C3: while the signal of a poll iteration is None or equals the position the
\* iteration began with, no liquidate and no order has been dispatched in it
\* and last_signal is what it was at its start.
C3_DuplicateSignalNoOp ==
    (signal = None \/ signal = last0) =>
        (Trades(log) = <<>> /\ last_signal = last0)
C3_Witness ==
    /\ IterationDone
    /\ signal = "buy" /\ last0 = "buy"
    /\ "chart" \in Events(log)

\* C4: an exception raised by a brokerage call is the last thing its poll
\* iteration does: no request follows it, the loop goes to its except clause and
\* its sleep, last_signal is what it was when the iteration began, and the step
\* that raises leaves last_signal, _token and _token_ts as they were.
C4_FailClosed ==
    /\ [](\A i \in 1..Len(log) : log[i] = "raise" => i = Len(log))
    /\ [](Raised => /\ pc[Loop] \in {"except", "sleep", "top"}
                    /\ last_signal = last0
                    /\ {r \in inflight : r.t = Loop} = {})
    /\ [][log' = Append(log, "raise") =>
             /\ last_signal' = last_signal
             /\ _token' = _token
             /\ _token_ts' = _token_ts]_vars
C4_Witness ==
    /\ IterationDone /\ Raised
    /\ Trades(log) = <<"liq">>
    /\ _token # None

\* C5: once a token has been obtained, a get_token call made less than TOKEN_TTL
\* after the clock reading stored with it sends no authentication request and
\* returns the token, and a call made later than that sends exactly one.
C5_TokenCaching ==
    [][(pc[Loop] = "get_token" /\ pc'[Loop] # "get_token" /\ issuedAt >= 0) =>
          IF now - issuedAt < TOKEN_TTL
            THEN AuthReqs(inflight') = AuthReqs(inflight) /\ ret'[Loop] = Token
            ELSE Cardinality(AuthReqs(inflight')) = Cardinality(AuthReqs(inflight)) + 1
      ]_vars
C5_Witness ==
    /\ issuedAt >= TOKEN_TTL
    /\ pc[Loop] = "wait"
    /\ Len(log) >= 2
    /\ "auth" \notin Events(log)

\* C6: while the latest authentication response carried a p-ticket, no liquidate
\* and no order request is sent and last_signal does not change.
C6_PendingVerificationBlocksTrading ==
    [][mfaPending =>
          /\ TradeReqs(inflight') \subseteq TradeReqs(inflight)
          /\ last_signal' = last_signal]_vars

\* C7: at most one authentication request is on the wire at any time.
C7_SingleFlight == Cardinality(AuthReqs(inflight)) <= 1

\* C8: at most one liquidate or order request is on the wire at any time, it was
\* sent by the loop thread, and a buy order and a sell order are never on the
\* wire together, whatever the request threads are serving.
C8_MutualExclusion ==
    /\ Cardinality(TradeReqs(inflight)) <= 1
    /\ \A r \in TradeReqs(inflight) : r.t = Loop
    /\ ~(\E r1, r2 \in inflight : r1.k = "buy" /\ r2.k = "sell")
C8_Witness ==
    /\ \E r \in inflight : r.k \in {"buy", "sell"}
    /\ \A h \in Handlers : hst[h] # Idle

\* C9: the loop thread is always somewhere in its loop, an exception always
\* leads to the sleep of line 237, and a next iteration always starts.
C9_LoopNeverTerminates ==
    /\ [](pc[Loop] \in {"top", "get_token", "auth_wait", "send", "wait", "pause",
                        "except", "sleep"})
    /\ (pc[Loop] = "except") ~> (pc[Loop] = "sleep")
    /\ []<>(pc[Loop] = "top")
C9_Witness ==
    /\ pc[Loop] = "top"
    /\ Raised

\* C10: a request thread that has served a request carrying a close instruction
\* has sent a liquidate request and left the position Flat.
C10_ExplicitCloseLiquidates ==
    [][\A h \in Handlers :
          (hst[h].body = "close" /\ hst'[h] = Idle) =>
              /\ \E r \in inflight' \ inflight : r.k = "liq"
              /\ last_signal' = None]_vars


\* C12: with fewer than ATR_LEN + 2 bars fetched (none included),
\* compute_utbot_signal returns None, and the poll iteration dispatches no
\* liquidate and no order and leaves last_signal as it was.
C12_InsufficientDataBenign ==
    Len(bars) < ATR_LEN + 2 =>
        /\ compute_utbot_signal(bars) = None
        /\ signal = None
        /\ Trades(log) = <<>>
        /\ last_signal = last0
C12_Witness ==
    /\ IterationDone
    /\ bars = ShortBars
    /\ ~Raised

\* The liquidate request, its answer, the pause and the order of an iteration.
IsReversalEvent(e) == e \in {"liq", "liq_200", "liq_err", "pause", "buy", "sell"}
Reversal(l) == SelectSeq(l, IsReversalEvent)

\* C14: in an iteration that dispatched an order after a liquidate, the answer
\* to the liquidate, then exactly one pause, then the order follow one another;
\* an order dispatched from Flat is preceded by no liquidate and no pause.
C14_SettlingDelay ==
    (Events(log) \cap {"buy", "sell"} # {}) =>
        IF "liq" \in Events(log)
          THEN /\ last0 # None
               /\ \E a \in {"liq_200", "liq_err"} :
                     Reversal(log) = <<"liq", a, "pause", side>>
          ELSE /\ last0 = None
               /\ Reversal(log) = <<side>>
C14_Witness ==
    /\ IterationDone
    /\ Reversal(log) = <<"liq", "liq_200", "pause", "buy">>

\* C17: last_signal is None, 'buy' or 'sell', and it only changes from None to
\* 'buy' or 'sell', from 'buy' to 'sell' and from 'sell' to 'buy'.
C17_PositionTransitions ==
    /\ [](last_signal \in {None, "buy", "sell"})
    /\ [][last_signal' # last_signal =>
             <<last_signal, last_signal'>> \in
                 {<<None, "buy">>, <<None, "sell">>, <<"buy", "sell">>, <<"sell", "buy">>}]_vars
C17_Witness ==
    /\ last0 = "sell"
    /\ last_signal = "buy"
    /\ "ord_err" \in Events(log)

\* C18: when the liquidate request raises, the iteration dispatches no order and
\* leaves last_signal as it was; when it is answered, with 200 or with an error
\* status, the loop pauses and calls place_order, and an iteration in which
\* nothing raised has dispatched the order of the new side after the pause.
C18_LiquidateGatesByException ==
    /\ (Len(log) >= 2 /\ log[Len(log) - 1] = "liq" /\ log[Len(log)] = "raise") =>
          (Events(log) \cap {"buy", "sell"} = {} /\ last_signal = last0)
    /\ (IterationDone /\ ~Raised /\ Events(log) \cap {"liq_200", "liq_err"} # {}) =>
          /\ Trades(log) = <<"liq", side>>
          /\ \E i \in 1..Len(log) :
                log[i] = "pause" /\ \E j \in (i + 1)..Len(log) : log[j] = side
C18_Witness ==
    /\ IterationDone /\ ~Raised
    /\ "liq_err" \in Events(log)
    /\ Trades(log) = <<"liq", "sell">>

AcctReqs(S) == {r \in S : r.k = "acct"}

\* C19: _acct_id, once set, never changes and no account-list request is sent
\* any more; it is set to the first id of the account list that was answered;
\* an account-list request that raises or is answered with no account leaves it
\* unset; while it is unset no liquidate and no order is dispatched, and every
\* liquidate and order on the wire carries it.
C19_AccountCaching ==
    /\ [][_acct_id # None =>
             (_acct_id' = _acct_id /\ AcctReqs(inflight') \subseteq AcctReqs(inflight))]_vars
    /\ [][(_acct_id = None /\ _acct_id' # None) =>
             \E a \in AccountLists \ {<<>>} : _acct_id' = Head(a)]_vars
    /\ [][(op = "acct" /\ log' = Append(log, "raise")) => _acct_id' = None]_vars
    /\ [](_acct_id = None => (TradeReqs(inflight) = {} /\ Trades(log) = <<>>))
    /\ [](\A r \in TradeReqs(inflight) : r.acct = _acct_id /\ r.acct # None)
C19_Witness ==
    /\ _acct_id = "a9"
    /\ \E r \in inflight : r.k = "buy" /\ r.acct = "a9"


\* ------------------------------------------------ the detector's claims
\* The 15 bars of the rising fixture: closes 100 to 114, high and low 0.5 away,
\* in half points.
RisingFixture ==
    [k \in 1..15 |-> [high |-> 200 + 2 * (k - 1) + 1, low |-> 200 + 2 * (k - 1) - 1,
                      close |-> 200 + 2 * (k - 1)]]
IsFixturePrefix == Len(bars) <= 15 /\ bars = SubSeq(RisingFixture, 1, Len(bars))

\* stop[i], close[i] and n_loss at i of the list in bars, scaled (i as in Python).
StopAt(i) == Stops(bars)[i + 1]
CloseAt(i) == Bar(bars, i).close * Scale(bars)
NLossAt(i) == KEY_VALUE * AtrList(bars, Len(bars) - 1)[i + 1]

\* C11 as stated: once every prefix of the rising fixture with at least
\* ATR_LEN + 2 bars has been evaluated, exactly one of the signals returned is
\* a buy and the others are None.
C11_RisingFixtureOneBuy ==
    (bars = RisingFixture /\ Evaluated) =>
        \E k \in 1..Len(log) :
            /\ log[k] = "buy"
            /\ \A j \in 1..Len(log) : j # k => log[j] = None

\* C11, amended: on every prefix of the rising fixture the detector returns
\* None; with the stop seeded at 0 the close at index ATR_LEN is already above
\* the stop and every later close stays above it, so no buy is emitted.
C11_RisingFixtureNoSignal ==
    IsFixturePrefix =>
        /\ \A j \in 1..Len(log) : log[j] = None
        /\ \A i \in ATR_LEN..(Len(bars) - 1) :
               Len(bars) >= ATR_LEN + 2 => CloseAt(i) > StopAt(i)

C11_Witness == bars = RisingFixture /\ Evaluated /\ Len(log) = 5

\* C13: the signal returned is buy exactly when the last close is above its
\* stop and the close before it is not, sell exactly when the last close is not
\* above and the one before is, and None otherwise; never both, and none when
\* both bars are on the same side of the stop.
C13_SignalDefinition ==
    (Evaluated /\ Len(bars) >= ATR_LEN + 2) =>
        LET i == Len(bars) - 1
            aboveNow == CloseAt(i) > StopAt(i)
            abovePrev == CloseAt(i - 1) > StopAt(i - 1)
        IN  /\ signal = "buy" <=> (aboveNow /\ ~abovePrev)
            /\ signal = "sell" <=> (~aboveNow /\ abovePrev)
            /\ signal = None <=> (aboveNow <=> abovePrev)
            /\ signal \in {"buy", "sell", None}
            /\ log[Len(log)] = signal

C13_Witness ==
    /\ Evaluated
    /\ signal = "buy"
    /\ \E j \in 1..Len(log) : log[j] = "sell"
    /\ CloseAt(Len(bars) - 1) > StopAt(Len(bars) - 1)

\* C15: past the first computed stop, the stop does not fall while this close
\* and the one before are both above the previous stop, does not rise while
\* both are below it, and otherwise is the close less or plus n_loss.
C15_StopMonotone ==
    \A i \in (ATR_LEN + 2)..(Len(bars) - 1) :
        LET bothAbove == CloseAt(i) > StopAt(i - 1) /\ CloseAt(i - 1) > StopAt(i - 1)
            bothBelow == CloseAt(i) < StopAt(i - 1) /\ CloseAt(i - 1) < StopAt(i - 1)
        IN  /\ bothAbove => StopAt(i) >= StopAt(i - 1)
            /\ bothBelow => StopAt(i) <= StopAt(i - 1)
            /\ (~bothAbove /\ ~bothBelow) =>
                   StopAt(i) = (IF CloseAt(i) > StopAt(i - 1)
                                  THEN CloseAt(i) - NLossAt(i)
                                  ELSE CloseAt(i) + NLossAt(i))
            /\ StopAt(i) \in {StopAt(i - 1), CloseAt(i) - NLossAt(i), CloseAt(i) + NLossAt(i)}

C15_Witness ==
    /\ Len(bars) = ATR_LEN + 5
    /\ LET i == ATR_LEN + 2
       IN  /\ CloseAt(i) > StopAt(i - 1) /\ CloseAt(i - 1) > StopAt(i - 1)
           /\ CloseAt(i) < CloseAt(i - 1)
           /\ StopAt(i) = StopAt(i - 1)
           /\ CloseAt(i + 1) < StopAt(i)
           /\ StopAt(i + 1) = CloseAt(i + 1) + NLossAt(i + 1)
           /\ CloseAt(i + 2) < StopAt(i + 1)
           /\ StopAt(i + 2) < StopAt(i + 1)

\* C16: on a list of exactly ATR_LEN + 2 bars with positive closes the stop
\* before the last is 0, the bar before the last counts as above the stop, and
\* the signal returned is sell or None, never buy.
C16_ZeroSeedBias ==
    (Len(bars) = ATR_LEN + 2 /\ \A k \in 1..Len(bars) : bars[k].close > 0) =>
        /\ \A i \in 0..ATR_LEN : StopAt(i) = 0
        /\ CloseAt(ATR_LEN) > StopAt(ATR_LEN)
        /\ compute_utbot_signal(bars) \in {"sell", None}
        /\ Evaluated => signal \in {"sell", None}

C16_Witness ==
    /\ Len(bars) = ATR_LEN + 2
    /\ Evaluated
    /\ signal = "sell"
    /\ bars[Len(bars)].close > 0

=============================================================================
